---- MODULE Spec2Model ----
(***************************************************************************)
(* Model of src/lib/services/producoes-service.ts:                         *)
(*   - graph(el, {data}): the force-directed graph view (d3 simulation,    *)
(*     SVG primitives, tooltip, click, drag handlers, destroy handle);     *)
(*   - ProducoesService: the REST client's URL builders.                   *)
(* JavaScript values are tagged records, so that undefined, null, numbers  *)
(* and strings stay distinct and the operators ?? and truthiness are       *)
(* computed as the language computes them.                                 *)
(***************************************************************************)
EXTENDS Integers, Sequences, FiniteSets, TLC

(* ---------------------------------------------------------------- bounds *)
\* Simulation-space positions (of nodes and of drag events) are the sample
\* points Point(0) .. Point(MaxCoord).
MaxCoord == 1
\* Hover events carry the client positions Client(0) .. Client(MaxPointer).
MaxPointer == 1

(* ------------------------------------------------------ JavaScript values *)
Undefined == [k |-> "undefined"]
Null == [k |-> "null"]
Num(n) == [k |-> "number", v |-> n]
Str(s) == [k |-> "string", v |-> s]
Fn(name) == [k |-> "function", v |-> name]
Obj(r) == [k |-> "object", v |-> r]
Arr(seq) == [k |-> "array", v |-> seq]

\* v == null  (loose equality with null: null or undefined)
IsNullish(v) == v.k \in {"undefined", "null"}

\* a ?? b
Coalesce(a, b) == IF IsNullish(a) THEN b ELSE a

\* if (v) ...
Truthy(v) ==
    CASE v.k = "undefined" -> FALSE
      [] v.k = "null" -> FALSE
      [] v.k = "number" -> v.v # 0
      [] v.k = "string" -> v.v # ""
      [] OTHER -> TRUE

(* ------------------------------------------------------------- the dataset *)
\* data.nodes: one node with every optional member, one with none.
DataNodes ==
    [n1 |-> [id |-> "n1", color |-> Str("#f00"), tooltip |-> Str("<b>n1</b>"),
             actions |-> Obj([click |-> Fn("onClick_n1")])],
     n2 |-> [id |-> "n2", color |-> Undefined, tooltip |-> Null,
             actions |-> Undefined]]

\* data.links: source and target are node ids.
DataLinks == [l1 |-> [id |-> "l1", source |-> "n1", target |-> "n2"]]

NodeIds == DOMAIN DataNodes
LinkIds == DOMAIN DataLinks

nodeSize == 9

\* Sample points of the plane; x and y differ in every one of them.
Point(p) == [x |-> p, y |-> 2 * p + 1]
Points == {Point(p) : p \in 0..MaxCoord}
\* d3-drag keys its gestures by pointer identifier: two fingers of a
\* multi-touch screen, whose gestures may overlap in any way.
Identifiers == {"touch0", "touch1"}
Inactive == "inactive"
NoNode == "none"

\* d.actions?.click
ClickOf(d) == IF IsNullish(d.actions) THEN Undefined ELSE d.actions.v.click

(* ------------------------------------------------- d3-force defaults, x10 *)
\* alpha, alphaMin and alphaTarget are kept in tenths; alphaMin (0.001 in
\* d3) is the smallest positive level of the scale.
AlphaInit == 10
AlphaMin == 1
AlphaDragTarget == 3
\* alpha += (alphaTarget - alpha) * alphaDecay, with a decay of 9/10; the
\* change is rounded up to a whole tenth, so that alpha reaches its target.
AlphaStep(a, target) ==
    IF target >= a
    THEN a + (((target - a) * 9 + 9) \div 10)
    ELSE a - (((a - target) * 9 + 9) \div 10)

VARIABLES
    nodes,        \* node id -> [x, y, fx, fy]: the simulation's node objects
    links,        \* link id -> [source, target]: resolved node references
    line,         \* link id -> [x1, y1, x2, y2]: attributes of the <line>
    circle,       \* node id -> [cx, cy, fill]: attributes of the <circle>
    alpha,        \* simulation.alpha()
    alphaTarget,  \* simulation.alphaTarget()
    running,      \* the simulation's timer is scheduled
    gestures,     \* d3-drag: pointer identifier -> subject node, or Inactive
    tooltip,      \* [top, left, opacity, visibility, children]
    hover,        \* the node under the pointer, as the browser sees it
    entered,      \* the node of the latest mouseover (history)
    invoked,      \* the callbacks the latest click event invoked (history)
    destroyed,    \* destroy() has been called (history)
    pc,           \* REST call: "idle", "awaiting" (fetch pending) or "done"
    call,         \* REST call: [op, filters] of the call under way
    fetched,      \* REST call: the URLs it has passed to fetch, in order
    response,     \* REST call: what fetch resolved with, if it did
    outcome       \* REST call: how the returned promise settled

viewVars == <<nodes, links, line, circle, alpha, alphaTarget, running, gestures,
              tooltip, hover, entered, invoked, destroyed>>
restVars == <<pc, call, fetched, response, outcome>>
vars == <<viewVars, restVars>>

\* No ProducoesService call is under way.
RestIdle ==
    /\ pc = "idle"
    /\ call = [op |-> "none", filters |-> Undefined]
    /\ fetched = <<>>
    /\ response = [k |-> "none"]
    /\ outcome = [k |-> "pending"]

\* d3.forceLink(links).id(d => d.id): each link's source and target id is
\* replaced by the node object with that id.
ResolveLink(l) ==
    [source |-> CHOOSE n \in NodeIds : DataNodes[n].id = l.source,
     target |-> CHOOSE n \in NodeIds : DataNodes[n].id = l.target]

\* Variant: the fill is the colour as given, with no default.
FillNoFallback(d) == d.color

\* .attr('fill', d => d.color ?? '#000')
Fill(d) == Coalesce(d.color, Str("#000"))

\* State after graph(el, {data}) returns: forceSimulation(nodes) has given
\* every node a position, no tick has run, the tooltip is hidden and empty.
ViewInit(at) ==
    /\ nodes = [n \in NodeIds |-> [x |-> at[n].x, y |-> at[n].y,
                                    fx |-> Undefined, fy |-> Undefined]]
    /\ links = [l \in LinkIds |-> ResolveLink(DataLinks[l])]
    /\ line = [l \in LinkIds |-> [x1 |-> Undefined, y1 |-> Undefined,
                                  x2 |-> Undefined, y2 |-> Undefined]]
    /\ circle = [n \in NodeIds |-> [cx |-> Undefined, cy |-> Undefined,
                                    fill |-> Fill(DataNodes[n])]]
    /\ alpha = AlphaInit
    /\ alphaTarget = 0
    /\ running = TRUE
    /\ gestures = [i \in Identifiers |-> Inactive]
    /\ tooltip = [top |-> 0, left |-> 0, opacity |-> 0, visibility |-> "hidden",
                  children |-> <<>>]
    /\ hover = NoNode
    /\ entered = NoNode
    /\ invoked = <<>>
    /\ destroyed = FALSE

Init ==
    /\ \E at \in [NodeIds -> Points] : ViewInit(at)
    /\ RestIdle

(* ------------------------------------------------------------------ tick *)
\* d3 simulation tick(): a pinned coordinate is copied from the pin, a free
\* one is whatever the forces make it.
\*   if (node.fx == null) node.x += node.vx *= velocityDecay;
\*   else node.x = node.fx, node.vx = 0;           (and the same for y)
Stepped(node, free) ==
    [node EXCEPT !.x = IF IsNullish(node.fx) THEN free.x ELSE node.fx.v,
                 !.y = IF IsNullish(node.fy) THEN free.y ELSE node.fy.v]

\* Variant: the far end of the line is read from the source node too.
TickedLineOneEnd(l, ns) ==
    [x1 |-> Num(ns[links[l].source].x), y1 |-> Num(ns[links[l].source].y),
     x2 |-> Num(ns[links[l].source].x), y2 |-> Num(ns[links[l].source].y)]

\* simulation.on('tick', ...): the link and node attribute writes.
TickedLine(l, ns) ==
    [x1 |-> Num(ns[links[l].source].x), y1 |-> Num(ns[links[l].source].y),
     x2 |-> Num(ns[links[l].target].x), y2 |-> Num(ns[links[l].target].y)]

TickedCircle(n, ns) ==
    [circle[n] EXCEPT !.cx = Num(ns[n].x), !.cy = Num(ns[n].y)]

\* One step of the simulation's timer: tick(), the 'tick' listener, and the
\* timer stops itself once alpha has fallen below alphaMin.
Tick ==
    /\ running
    /\ UNCHANGED <<restVars, links, alphaTarget, gestures, tooltip, hover, entered,
                   invoked, destroyed>>
    /\ alpha' = AlphaStep(alpha, alphaTarget)
    /\ \E free \in [NodeIds -> Points] :
          nodes' = [n \in NodeIds |-> Stepped(nodes[n], free[n])]
    /\ line' = [l \in LinkIds |-> TickedLine(l, nodes')]
    /\ circle' = [n \in NodeIds |-> TickedCircle(n, nodes')]
    /\ running' = (alpha' >= AlphaMin)

(* ------------------------------------------------------------------ drag *)
\* d3-drag's count of active gestures (event.active is taken from it).
ActiveCount == Cardinality({i \in Identifiers : gestures[i] # Inactive})

\* function dragstarted(event)
DragStartedSim(active) ==
    IF active = 0
    THEN alphaTarget' = AlphaDragTarget /\ running' = TRUE
    ELSE UNCHANGED <<alphaTarget, running>>

DragStartedPin(subject) ==
    nodes' = [nodes EXCEPT ![subject].fx = Num(nodes[subject].x),
                           ![subject].fy = Num(nodes[subject].y)]

\* Variant: starting a drag hides the tooltip.
DragStartHidesTooltip(i, n) ==
    /\ gestures[i] = Inactive
    /\ gestures' = [gestures EXCEPT ![i] = n]
    /\ DragStartedSim(ActiveCount)
    /\ DragStartedPin(n)
    /\ tooltip' = [tooltip EXCEPT !.opacity = 0, !.visibility = "hidden"]
    /\ UNCHANGED <<restVars, links, line, circle, alpha, hover, entered, invoked, destroyed>>

\* A pointer goes down on node n: d3-drag registers the gesture and emits
\* 'start' with event.active = the number of gestures already active.
DragStart(i, n) ==
    /\ gestures[i] = Inactive
    /\ gestures' = [gestures EXCEPT ![i] = n]
    /\ DragStartedSim(ActiveCount)
    /\ DragStartedPin(n)
    /\ UNCHANGED <<restVars, links, line, circle, alpha, tooltip, hover, entered, invoked, destroyed>>

\* function dragged(event)
DraggedPin(subject, ex, ey) ==
    nodes' = [nodes EXCEPT ![subject].fx = Num(ex), ![subject].fy = Num(ey)]

\* The pointer of an active gesture moves: 'drag' with event.x, event.y.
DragMove(i, ex, ey) ==
    /\ gestures[i] # Inactive
    /\ DraggedPin(gestures[i], ex, ey)
    /\ UNCHANGED <<restVars, links, line, circle, alpha, alphaTarget, running, gestures,
                   tooltip, hover, entered, invoked, destroyed>>

\* Variant: every drag-end cools the simulation, whatever event.active is.
DragEndedSimAlways(active) == alphaTarget' = 0

\* Variant: no drag-end gives the target energy back.
DragEndedSimKeeps(active) == UNCHANGED alphaTarget

\* function dragended(event)
DragEndedSim(active) ==
    IF active = 0
    THEN alphaTarget' = 0
    ELSE UNCHANGED alphaTarget

\* Variant: only the x pin is released.
DragEndedPinXOnly(subject) ==
    nodes' = [nodes EXCEPT ![subject].fx = Null]

DragEndedPin(subject) ==
    nodes' = [nodes EXCEPT ![subject].fx = Null, ![subject].fy = Null]

\* The pointer of an active gesture goes up: d3-drag drops the gesture and
\* emits 'end' with event.active = the number of gestures still active.
DragEnd(i) ==
    /\ gestures[i] # Inactive
    /\ gestures' = [gestures EXCEPT ![i] = Inactive]
    /\ DragEndedSim(ActiveCount - 1)
    /\ DragEndedPin(gestures[i])
    /\ UNCHANGED <<restVars, links, line, circle, alpha, running, tooltip, hover, entered,
                   invoked, destroyed>>

(* ----------------------------------------------------- hover and click *)
\* svg.node().getBoundingClientRect(): where the surface sits in the page.
Rect == [left |-> 20, top |-> 10]

\* Sample client positions of pointer events over the surface.
Client(p) == [clientX |-> Rect.left + p, clientY |-> Rect.top + 2 * p + 1]
Clients == {Client(p) : p \in 0..MaxPointer}

\* function getRelativeMousePosition(event)
getRelativeMousePosition(event) ==
    [x |-> event.clientX - Rect.left, y |-> event.clientY - Rect.top]

\* Variant: top and left are taken from the wrong axes.
ShownSwapped(t, event) ==
    [t EXCEPT !.top = getRelativeMousePosition(event).x + nodeSize,
              !.left = getRelativeMousePosition(event).y + nodeSize,
              !.opacity = 1,
              !.visibility = "visible"]

\* tooltip.style('top', `${y + nodeSize}px`).style('left', `${x + nodeSize}px`);
\* tooltip.style('opacity', 1).style('visibility', 'visible');
Shown(t, event) ==
    [t EXCEPT !.top = getRelativeMousePosition(event).y + nodeSize,
              !.left = getRelativeMousePosition(event).x + nodeSize,
              !.opacity = 1,
              !.visibility = "visible"]

\* Variant: the new content is appended without removing the old one.
RefilledNoRemove(t, d) ==
    [t EXCEPT !.children = Append(t.children, Coalesce(d.tooltip, Str("no tooltip")))]

\* tooltip.selectAll('*').remove();
\* tooltip.append('div').html(d.tooltip ?? 'no tooltip');
Refilled(t, d) ==
    [t EXCEPT !.children = <<Coalesce(d.tooltip, Str("no tooltip"))>>]

\* tooltip.style('opacity', 0).style('visibility', 'hidden');
Hidden(t) == [t EXCEPT !.opacity = 0, !.visibility = "hidden"]

\* .on('mouseover', function (event, d) {...}): the pointer enters node n.
MouseOver(n, event) ==
    /\ hover # n
    /\ hover' = n
    /\ entered' = n
    /\ tooltip' = Refilled(Shown(tooltip, event), DataNodes[n])
    /\ UNCHANGED <<restVars, nodes, links, line, circle, alpha, alphaTarget, running,
                   gestures, invoked, destroyed>>

\* .on('mousemove', function (event, d) {...}): the pointer moves over n.
MouseMove(n, event) ==
    /\ hover = n
    /\ tooltip' = Shown(tooltip, event)
    /\ UNCHANGED <<restVars, nodes, links, line, circle, alpha, alphaTarget, running,
                   gestures, hover, entered, invoked, destroyed>>

\* .on('mouseout', function (event, d) {...}): the pointer leaves n.
MouseOut(n) ==
    /\ hover = n
    /\ hover' = NoNode
    /\ tooltip' = Hidden(tooltip)
    /\ UNCHANGED <<restVars, nodes, links, line, circle, alpha, alphaTarget, running,
                   gestures, entered, invoked, destroyed>>

\* Variant: the callback is invoked without testing that it is there.
ClickedUnguarded(d) == <<ClickOf(d)>>

\* if (d.actions?.click) d.actions.click();
Clicked(d) == IF Truthy(ClickOf(d)) THEN <<ClickOf(d)>> ELSE <<>>

\* .on('click', function (event, d) {...})
Click(n) ==
    /\ invoked' = Clicked(DataNodes[n])
    /\ UNCHANGED <<restVars, nodes, links, line, circle, alpha, alphaTarget, running,
                   gestures, tooltip, hover, entered, destroyed>>

(* --------------------------------------------------------------- destroy *)
\* Variant: destroy() also cancels the gestures under way and their pins.
DestroyCancelsDrags ==
    /\ running' = FALSE
    /\ destroyed' = TRUE
    /\ gestures' = [i \in Identifiers |-> Inactive]
    /\ nodes' = [n \in NodeIds |-> [nodes[n] EXCEPT !.fx = Null, !.fy = Null]]
    /\ alphaTarget' = 0
    /\ UNCHANGED <<restVars, links, line, circle, alpha, tooltip, hover, entered,
                   invoked>>

\* destroy() { simulation.stop(); }
Destroy ==
    /\ running' = FALSE
    /\ destroyed' = TRUE
    /\ UNCHANGED <<restVars, nodes, links, line, circle, alpha, alphaTarget, gestures,
                   tooltip, hover, entered, invoked>>

Next ==
    \/ Tick
    \/ \E i \in Identifiers, n \in NodeIds : DragStart(i, n)
    \/ \E i \in Identifiers, e \in Points : DragMove(i, e.x, e.y)
    \/ \E i \in Identifiers : DragEnd(i)
    \/ Destroy
    \/ \E n \in NodeIds, e \in Clients : MouseOver(n, e)
    \/ \E n \in NodeIds, e \in Clients : MouseMove(n, e)
    \/ \E n \in NodeIds : MouseOut(n)
    \/ \E n \in NodeIds : Click(n)

Spec == Init /\ [][Next]_vars

\* The simulation's timer (d3.timer, on requestAnimationFrame) calls the
\* step for as long as it is scheduled: a scheduled step is never put off
\* for ever.
SpecFair == Spec /\ WF_vars(Tick)

(* ------------------------------------------------------ the caller's data *)
\* A reference to a node object (what forceLink leaves in link.source and
\* link.target), as opposed to the string that names the node.
NodeRef(n) == [k |-> "node", v |-> n]

\* const links = data.links; const nodes = data.nodes;
\* No copy is made: the arrays and objects the caller passed are the ones
\* the simulation and the drag handlers write. This is what the caller
\* reads in them; a property that was never written reads as undefined.
data ==
    [nodes |-> [n \in NodeIds |->
                   [id |-> DataNodes[n].id, color |-> DataNodes[n].color,
                    tooltip |-> DataNodes[n].tooltip,
                    actions |-> DataNodes[n].actions,
                    x |-> Num(nodes[n].x), y |-> Num(nodes[n].y),
                    fx |-> nodes[n].fx, fy |-> nodes[n].fy]],
     links |-> [l \in LinkIds |->
                   [id |-> DataLinks[l].id,
                    source |-> NodeRef(links[l].source),
                    target |-> NodeRef(links[l].target)]]]

\* d3.forceSimulation(nodes) on node objects that may have been used
\* before: a node that has a position keeps it (a pinned one is put at its
\* pin), only a node without one is placed (at at[n]); pins are left alone.
Reconstructed(d, at) ==
    [n \in NodeIds |->
        [x |-> IF ~IsNullish(d.nodes[n].fx) THEN d.nodes[n].fx.v
               ELSE IF d.nodes[n].x.k = "number" /\ d.nodes[n].y.k = "number"
                    THEN d.nodes[n].x.v ELSE at[n].x,
         y |-> IF ~IsNullish(d.nodes[n].fy) THEN d.nodes[n].fy.v
               ELSE IF d.nodes[n].x.k = "number" /\ d.nodes[n].y.k = "number"
                    THEN d.nodes[n].y.v ELSE at[n].y,
         fx |-> d.nodes[n].fx,
         fy |-> d.nodes[n].fy]]

(* ====================================================== ProducoesService *)
\* Array.prototype.join(sep) on an array of strings.
RECURSIVE Join(_, _)
Join(seq, sep) ==
    IF seq = <<>> THEN ""
    ELSE IF Len(seq) = 1 THEN seq[1]
    ELSE seq[1] \o sep \o Join(Tail(seq), sep)

\* The string a value is appended as: number.toString(), the string itself,
\* array.join(','); String(undefined) and String(null) otherwise.
ToJsString(v) ==
    CASE v.k = "number" -> ToString(v.v)
      [] v.k = "string" -> v.v
      [] v.k = "array" -> Join(v.v, ",")
      [] OTHER -> v.k

\* The same string as url.toString() writes it (form-urlencoded). The
\* strings of the inputs below are letters and digits, which are written
\* as they are; the comma that join puts between them is written %2C.
ToWireString(v) ==
    CASE v.k = "number" -> ToString(v.v)
      [] v.k = "string" -> v.v
      [] v.k = "array" -> Join(v.v, "%2C")
      [] OTHER -> v.k

\* if (v) url.searchParams.append(name, <v as a string>);
AppendIf(params, v, name) ==
    IF Truthy(v)
    THEN Append(params, [name |-> name, value |-> ToJsString(v), wire |-> ToWireString(v)])
    ELSE params

\* filters?.member: undefined when filters itself is undefined or null.
Member(filters, name) == IF IsNullish(filters) THEN Undefined ELSE filters.v[name]

\* grandeAreas: lines 8-9
GrandeAreasUrl(filters) ==
    [path |-> "v1/producoes/grande_area",
     params |-> AppendIf(<<>>, Member(filters, "campus"), "campus")]

\* area: lines 17-19
AreaUrl(filters) ==
    LET p1 == AppendIf(<<>>, Member(filters, "campus"), "campus")
        p2 == AppendIf(p1, Member(filters, "grandeArea"), "grande_area")
    IN  [path |-> "v1/producoes/area", params |-> p2]

\* campus: line 24
CampusUrl == [path |-> "v1/producoes/campus", params |-> <<>>]

\* Variant: page and per_page are sent whenever they are not undefined.
AppendIfDefined(params, v, name) ==
    IF v # Undefined
    THEN Append(params, [name |-> name, value |-> ToJsString(v), wire |-> ToWireString(v)])
    ELSE params

ListUrlPageDefined(filters) ==
    LET f == filters.v
        p1 == AppendIf(<<>>, f.campus, "campus")
        p2 == AppendIf(p1, f.grandeArea, "grande_area")
        p3 == AppendIf(p2, f.area, "area")
        p4 == AppendIfDefined(p3, f.page, "page")
        p5 == AppendIfDefined(p4, f.perPage, "per_page")
        p6 == AppendIf(p5, f.tipos, "tipos")
        p7 == AppendIf(p6, f.anoLte, "ano_lte")
        p8 == AppendIf(p7, f.anoGte, "ano_gte")
    IN  [path |-> "v1/producoes", params |-> p8]

\* Variant: tipos is sent only when the list has an element
\* (if (filters.tipos?.length) ...).
AppendIfNonEmpty(params, v, name) ==
    IF Truthy(v) /\ v # Arr(<<>>)
    THEN Append(params, [name |-> name, value |-> ToJsString(v), wire |-> ToWireString(v)])
    ELSE params

ListUrlTiposLength(filters) ==
    LET f == filters.v
        p1 == AppendIf(<<>>, f.campus, "campus")
        p2 == AppendIf(p1, f.grandeArea, "grande_area")
        p3 == AppendIf(p2, f.area, "area")
        p4 == AppendIf(p3, f.page, "page")
        p5 == AppendIf(p4, f.perPage, "per_page")
        p6 == AppendIfNonEmpty(p5, f.tipos, "tipos")
        p7 == AppendIf(p6, f.anoLte, "ano_lte")
        p8 == AppendIf(p7, f.anoGte, "ano_gte")
    IN  [path |-> "v1/producoes", params |-> p8]

\* list: lines 40-48
ListUrl(filters) ==
    LET f == filters.v
        p1 == AppendIf(<<>>, f.campus, "campus")
        p2 == AppendIf(p1, f.grandeArea, "grande_area")
        p3 == AppendIf(p2, f.area, "area")
        p4 == AppendIf(p3, f.page, "page")
        p5 == AppendIf(p4, f.perPage, "per_page")
        p6 == AppendIf(p5, f.tipos, "tipos")
        p7 == AppendIf(p6, f.anoLte, "ano_lte")
        p8 == AppendIf(p7, f.anoGte, "ano_gte")
    IN  [path |-> "v1/producoes", params |-> p8]

\* chart: lines 61-65
ChartUrl(filters) ==
    LET f == filters.v
        p1 == AppendIf(<<>>, f.campus, "campus")
        p2 == AppendIf(p1, f.grandeArea, "grande_area")
        p3 == AppendIf(p2, f.area, "area")
        p4 == AppendIf(p3, f.siape, "siape")
    IN  [path |-> "v1/producoes/stats", params |-> p4]

\* url.search without the '?': name=value pairs joined by '&'.
RECURSIVE QueryString(_)
QueryString(params) ==
    IF params = <<>> THEN ""
    ELSE IF Len(params) = 1 THEN params[1].name \o "=" \o params[1].wire
    ELSE params[1].name \o "=" \o params[1].wire \o "&" \o QueryString(Tail(params))

\* The filter objects the calls are tried with. A member left out of the
\* object reads as undefined.
CampusValues == {Undefined, Null, Str(""), Str("UFX")}
GrandeAreaValues == {Undefined, Str(""), Str("EXATAS")}
AreaValues == {Undefined, Str(""), Str("FISICA")}
PageValues == {Undefined, Num(0), Num(2)}
PerPageValues == {Undefined, Num(0), Num(10)}
TiposValues == {Undefined, Null, Arr(<<>>), Arr(<<"ARTIGO", "LIVRO">>)}
AnoLteValues == {Undefined, Num(0), Num(2024)}
AnoGteValues == {Undefined, Num(0), Num(2020)}
SiapeValues == {Undefined, Null, Str("1234567")}

GrandeAreasFilters ==
    {Undefined} \cup {Obj([campus |-> c]) : c \in CampusValues}
AreaFilters ==
    {Undefined} \cup {Obj(r) : r \in [campus : CampusValues, grandeArea : GrandeAreaValues]}
ListFilters ==
    {Obj(r) : r \in [campus : CampusValues, grandeArea : GrandeAreaValues,
                      area : AreaValues, tipos : TiposValues,
                      anoLte : AnoLteValues, anoGte : AnoGteValues,
                      page : PageValues, perPage : PerPageValues]}
ChartFilters ==
    {Obj(r) : r \in [campus : CampusValues, grandeArea : GrandeAreaValues,
                      area : AreaValues, siape : SiapeValues]}

\* What the server may answer: any status, with a body that parses as JSON
\* (to the value named) or one that does not.
Responses ==
    {[k |-> "response", status |-> 200, parses |-> TRUE, json |-> "[\"a\"]"],
     [k |-> "response", status |-> 404, parses |-> TRUE, json |-> "{\"detail\":\"x\"}"],
     [k |-> "response", status |-> 200, parses |-> FALSE, json |-> ""],
     [k |-> "response", status |-> 500, parses |-> FALSE, json |-> ""]}

\* const response = await fetch(url.toString());   (the request goes out)
Called(op, filters, url) ==
    /\ pc' = "awaiting"
    /\ call' = [op |-> op, filters |-> filters]
    /\ fetched' = Append(fetched, url)
    /\ UNCHANGED <<viewVars, response, outcome>>

CallGrandeAreas ==
    /\ pc = "idle"
    /\ \E f \in GrandeAreasFilters : Called("grandeAreas", f, GrandeAreasUrl(f))

CallArea ==
    /\ pc = "idle"
    /\ \E f \in AreaFilters : Called("area", f, AreaUrl(f))

CallCampus ==
    /\ pc = "idle"
    /\ Called("campus", Undefined, CampusUrl)

CallList ==
    /\ pc = "idle"
    /\ \E f \in ListFilters : Called("list", f, ListUrl(f))

CallChart ==
    /\ pc = "idle"
    /\ \E f \in ChartFilters : Called("chart", f, ChartUrl(f))

\* Variant: a status of 400 or more is turned into an error.
SettledChecksStatus(r) ==
    IF r.status >= 400
    THEN [k |-> "rejected", value |-> "HttpError"]
    ELSE IF r.parses
         THEN [k |-> "fulfilled", value |-> r.json]
         ELSE [k |-> "rejected", value |-> "SyntaxError"]

\* return (await response.json()) as ...: the parsed body whatever the
\* status; a body that does not parse rejects the promise.
Settled(r) ==
    IF r.parses
    THEN [k |-> "fulfilled", value |-> r.json]
    ELSE [k |-> "rejected", value |-> "SyntaxError"]

\* fetch resolves with a response.
FetchResolves ==
    /\ pc = "awaiting"
    /\ pc' = "done"
    /\ \E r \in Responses : response' = r /\ outcome' = Settled(r)
    /\ UNCHANGED <<viewVars, call, fetched>>

\* fetch rejects (network failure): the await throws out of the function.
FetchRejects ==
    /\ pc = "awaiting"
    /\ pc' = "done"
    /\ outcome' = [k |-> "rejected", value |-> "TypeError"]
    /\ UNCHANGED <<viewVars, call, fetched, response>>

InitRest ==
    /\ ViewInit([n \in NodeIds |-> Point(0)])
    /\ RestIdle

NextRest ==
    \/ CallGrandeAreas
    \/ CallArea
    \/ CallCampus
    \/ CallList
    \/ CallChart
    \/ FetchResolves
    \/ FetchRejects

SpecRest == InitRest /\ [][NextRest]_vars

(* ================================================================ claims *)
Pinned(n) == ~IsNullish(nodes[n].fx) \/ ~IsNullish(nodes[n].fy)
Dragged(n) == \E i \in Identifiers : gestures[i] = n

\* Every drawn primitive sits where its node is.
DrawnAtNodes ==
    /\ \A l \in LinkIds :
          /\ line[l].x1 = Num(nodes[DataLinks[l].source].x)
          /\ line[l].y1 = Num(nodes[DataLinks[l].source].y)
          /\ line[l].x2 = Num(nodes[DataLinks[l].target].x)
          /\ line[l].y2 = Num(nodes[DataLinks[l].target].y)
    /\ \A n \in NodeIds :
          /\ circle[n].cx = Num(nodes[n].x)
          /\ circle[n].cy = Num(nodes[n].y)

\* C1: right after every tick each line runs from its source node's (x, y)
\* to its target node's (x, y) and each circle is at its node's (x, y); and
\* a step that changes a drawn primitive is a tick (no hover, click, drag
\* or destroy step writes one).
C1_TickBinding ==
    [][/\ DrawnAtNodes' \/ ~Tick
       /\ (line' # line \/ circle' # circle) => Tick]_vars

\* C1 witness: ticks have drawn the two nodes at different places while
\* one of them is being dragged and the pointer hovers a node.
C1_Witness ==
    /\ DrawnAtNodes
    /\ nodes["n1"].x # nodes["n2"].x
    /\ Dragged("n1")
    /\ hover # NoNode

\* C2 (as claimed): once destroy() has been called no drawn position ever
\* changes again, whatever events follow.
C2_DestroyFreezes ==
    [][destroyed => (line' = line /\ circle' = circle)]_vars

\* C3: alphaTarget is 0.3 exactly while at least one drag is active; the
\* drag-start that finds no drag active raises it and restarts the
\* simulation; a drag-start that finds one active restarts nothing; only the
\* first drag-start and the last drag-end change alphaTarget.
C3_EnergyManagement ==
    /\ [](alphaTarget = IF ActiveCount > 0 THEN 3 ELSE 0)
    /\ [][/\ (ActiveCount = 0 /\ ActiveCount' > 0) => (alphaTarget' = 3 /\ running')
          /\ (ActiveCount > 0 /\ ActiveCount' > ActiveCount) => running' = running
          /\ alphaTarget' # alphaTarget =>
                \/ ActiveCount = 0 /\ ActiveCount' = 1
                \/ ActiveCount = 1 /\ ActiveCount' = 0]_vars

\* C3 witness: two drags overlapped and one of them has ended (it released
\* n1 while touch0 still holds it): the target is still raised.
C3_Witness ==
    /\ gestures["touch0"] = "n1"
    /\ gestures["touch1"] = Inactive
    /\ nodes["n1"].fx = Null
    /\ alphaTarget = 3

\* C4: the step that starts a gesture pins its node where the node is,
\* every drag-move pins it at the event's coordinates, the step that ends a
\* gesture sets both pins to null; a tick never writes a pin, and a node
\* released by a drag-end (pins null) can be moved by the next tick of a
\* running simulation.
C4_PinRoundTrip ==
    /\ [][/\ \A i \in Identifiers :
               (gestures[i] = Inactive /\ gestures'[i] # Inactive) =>
                   /\ nodes'[gestures'[i]].fx = Num(nodes[gestures'[i]].x)
                   /\ nodes'[gestures'[i]].fy = Num(nodes[gestures'[i]].y)
          /\ \A i \in Identifiers, e \in Points :
               (gestures' = gestures /\ nodes' # nodes /\ line' = line
                  /\ DragMove(i, e.x, e.y)) =>
                   /\ nodes'[gestures[i]].fx = Num(e.x)
                   /\ nodes'[gestures[i]].fy = Num(e.y)
          /\ \A i \in Identifiers :
               (gestures[i] # Inactive /\ gestures'[i] = Inactive) =>
                   /\ nodes'[gestures[i]].fx = Null
                   /\ nodes'[gestures[i]].fy = Null
          /\ \/ \A n \in NodeIds : /\ nodes'[n].fx = nodes[n].fx
                                     /\ nodes'[n].fy = nodes[n].fy
             \/ ~Tick]_vars
    /\ [](\A n \in NodeIds :
            (running /\ nodes[n].fx = Null /\ nodes[n].fy = Null) =>
                ENABLED (Tick /\ nodes'[n].x # nodes[n].x /\ nodes'[n].y # nodes[n].y))

\* C4 witness: n1 has been dragged and released (its pins are null, not
\* undefined), no drag is active and the simulation is running.
C4_Witness ==
    /\ nodes["n1"].fx = Null
    /\ nodes["n1"].fy = Null
    /\ ActiveCount = 0
    /\ running

\* C5 (as claimed): a node is pinned if and only if it is the subject of an
\* active drag.
C5_PinOwnership == \A n \in NodeIds : Pinned(n) <=> Dragged(n)

\* What a node's tooltip must read: its text, or 'no tooltip' when the text
\* is undefined or null.
TooltipTextOf(n) ==
    IF DataNodes[n].tooltip = Undefined \/ DataNodes[n].tooltip = Null
    THEN Str("no tooltip")
    ELSE DataNodes[n].tooltip

\* C6: the tooltip is empty until a node is entered, and from then on holds
\* exactly one content element, the text of the node entered last, through
\* every later move, leave, click, drag, tick and destroy.
C6_HoverContent ==
    IF entered = NoNode
    THEN tooltip.children = <<>>
    ELSE tooltip.children = <<TooltipTextOf(entered)>>

\* C6 witness: n2 was entered last and left, the tooltip has been moved
\* away from its first place, and it holds n2's (fallback) text alone.
C6_Witness ==
    /\ entered = "n2"
    /\ hover = NoNode
    /\ tooltip.left # 9
    /\ Len(tooltip.children) = 1

\* C7: the tooltip is visible (opacity 1, visibility visible) exactly while
\* the latest pointer event on a node was an enter or a move, and hidden
\* (opacity 0, visibility hidden) otherwise; enter and move put it 9 px
\* right of and below the pointer's place in the surface; leave hides it
\* and keeps its content and place.
C7_TooltipVisibility ==
    /\ [](/\ hover # NoNode => tooltip.opacity = 1 /\ tooltip.visibility = "visible"
          /\ hover = NoNode => tooltip.opacity = 0 /\ tooltip.visibility = "hidden")
    /\ [][/\ \A n \in NodeIds, e \in Clients :
               (tooltip' # tooltip /\ (MouseOver(n, e) \/ MouseMove(n, e))) =>
                   /\ tooltip'.left = (e.clientX - Rect.left) + 9
                   /\ tooltip'.top = (e.clientY - Rect.top) + 9
          /\ \A n \in NodeIds :
               (hover' # hover /\ MouseOut(n)) =>
                   /\ tooltip'.children = tooltip.children
                   /\ tooltip'.left = tooltip.left
                   /\ tooltip'.top = tooltip.top]_vars

\* C7 witness: after an enter and a leave the tooltip is hidden with its
\* content still in place.
C7_Witness ==
    /\ hover = NoNode
    /\ tooltip.visibility = "hidden"
    /\ tooltip.children # <<>>
    /\ tooltip.top # 0

\* A filter that must not be sent: left out, null, '' or 0.
Omitted(v) == v \in {Undefined, Null, Str(""), Num(0)}

\* The value a filter must be sent with.
SentAs(v) ==
    CASE v = Num(2) -> "2"
      [] v = Num(10) -> "10"
      [] v = Num(2020) -> "2020"
      [] v = Num(2024) -> "2024"
      [] v = Arr(<<>>) -> ""
      [] v = Arr(<<"ARTIGO", "LIVRO">>) -> "ARTIGO,LIVRO"
      [] OTHER -> v.v

\* The filters of each operation, in the order their parameters are sent.
FilterOrder(op) ==
    CASE op = "grandeAreas" -> <<<<"campus", "campus">>>>
      [] op = "area" -> <<<<"campus", "campus">>, <<"grandeArea", "grande_area">>>>
      [] op = "list" -> <<<<"campus", "campus">>, <<"grandeArea", "grande_area">>,
                          <<"area", "area">>, <<"page", "page">>,
                          <<"perPage", "per_page">>, <<"tipos", "tipos">>,
                          <<"anoLte", "ano_lte">>, <<"anoGte", "ano_gte">>>>
      [] op = "chart" -> <<<<"campus", "campus">>, <<"grandeArea", "grande_area">>,
                           <<"area", "area">>, <<"siape", "siape">>>>
      [] OTHER -> <<>>

\* The parameters a call must send: one per filter that is not omitted.
MustSend(op, filters) ==
    IF filters = Undefined THEN <<>>
    ELSE LET present(kn) == ~Omitted(filters.v[kn[1]])
             kept == SelectSeq(FilterOrder(op), present)
         IN  [i \in 1..Len(kept) |->
                 [name |-> kept[i][2], value |-> SentAs(filters.v[kept[i][1]])]]

NamesAndValues(params) ==
    [i \in 1..Len(params) |-> [name |-> params[i].name, value |-> params[i].value]]

ExampleFilters ==
    Obj([campus |-> Str("UFX"), grandeArea |-> Undefined, area |-> Undefined,
         tipos |-> Undefined, anoLte |-> Undefined, anoGte |-> Num(2020),
         page |-> Undefined, perPage |-> Undefined])

\* C8: a call requests one URL whose parameters are exactly those of its
\* filters that are not left out, null, '' or 0, one each, in the fixed
\* order, with numbers in decimal and tipos joined by commas;
\* list({campus: 'UFX', anoGte: 2020}) requests campus=UFX&ano_gte=2020;
\* campus() sends none; and a body that parses is what the call returns.
C8_QueryConstruction ==
    /\ pc # "idle" =>
          /\ Len(fetched) = 1
          /\ NamesAndValues(fetched[1].params) = MustSend(call.op, call.filters)
          /\ call.op = "campus" => fetched[1].params = <<>>
          /\ (call.op = "list" /\ call.filters = ExampleFilters) =>
                QueryString(fetched[1].params) = "campus=UFX&ano_gte=2020"
    /\ (pc = "done" /\ response.k = "response" /\ response.parses) =>
          outcome = [k |-> "fulfilled", value |-> response.json]

\* C8 witness: list({campus: 'UFX', anoGte: 2020}) has returned a body.
C8_Witness ==
    /\ pc = "done"
    /\ call = [op |-> "list", filters |-> ExampleFilters]
    /\ outcome.k = "fulfilled"

\* C9: every circle is filled with its node's colour, or '#000' when the
\* colour is undefined or null; while a node is hovered the tooltip shows
\* its text, or 'no tooltip' when the text is undefined or null.
C9_FallbackRendering ==
    /\ \A n \in NodeIds :
          circle[n].fill = IF DataNodes[n].color \in {Undefined, Null}
                           THEN Str("#000")
                           ELSE DataNodes[n].color
    /\ \A n \in NodeIds :
          hover = n => /\ Len(tooltip.children) = 1
                       /\ DataNodes[n].tooltip \in {Undefined, Null}
                             => tooltip.children[1] = Str("no tooltip")
                       /\ DataNodes[n].tooltip \notin {Undefined, Null}
                             => tooltip.children[1] = DataNodes[n].tooltip

\* C9 witness: the node without colour and tooltip is hovered, after ticks.
C9_Witness ==
    /\ hover = "n2"
    /\ circle["n2"].fill = Str("#000")
    /\ circle["n2"].cx # Undefined
    /\ tooltip.children = <<Str("no tooltip")>>

\* C10: a click on a node invokes its click callback once when it has one
\* and nothing when it has none, and changes nothing else: not the tooltip,
\* not a node's position or pin, not alpha, alphaTarget or the timer.
C10_ClickFrame ==
    [][\A n \in NodeIds :
          (UNCHANGED destroyed /\ Click(n)) =>
              /\ invoked' = IF /\ DataNodes[n].actions.k = "object"
                                /\ DataNodes[n].actions.v.click.k = "function"
                             THEN <<DataNodes[n].actions.v.click>>
                             ELSE <<>>
              /\ UNCHANGED <<tooltip, hover, nodes, line, circle, alpha,
                             alphaTarget, running, gestures>>]_vars

\* C10 witness: n1's callback has been invoked while a node is hovered, a
\* drag is active and the tooltip is visible.
C10_Witness ==
    /\ invoked = <<Fn("onClick_n1")>>
    /\ hover = "n2"
    /\ ActiveCount = 2
    /\ tooltip.visibility = "visible"

\* C11: while a drag is active on a view that has not been destroyed the
\* timer stays scheduled (the simulation ticks and is not at rest); with no
\* drag active alphaTarget is 0; and once no drag is active any more, for
\* good, the simulation comes to rest by its own ticks and stays at rest,
\* whether or not destroy() is ever called.
C11_CoolingToRest ==
    /\ []((ActiveCount > 0 /\ ~destroyed) => (running /\ ENABLED Tick))
    /\ [](ActiveCount = 0 => alphaTarget = 0)
    /\ <>[](ActiveCount = 0) => <>[]~running
    /\ <>[](ActiveCount = 0 /\ ~destroyed) =>
          <>[](~running /\ alpha < AlphaMin /\ ~destroyed)

\* C11 witness: a drag has come and gone (n1 was released), no drag is
\* active, and the simulation has cooled to rest without destroy().
C11_Witness ==
    /\ nodes["n1"].fx = Null
    /\ ActiveCount = 0
    /\ alphaTarget = 0
    /\ alpha < AlphaMin
    /\ ~running
    /\ ~destroyed

\* The active drags whose subject is node n.
DragsOn(n) == {i \in Identifiers : gestures[i] = n}

\* C12 (as claimed): a tick delivered while node n is the subject of exactly
\* one active drag leaves n's pin as it was, puts n's (x, y) at the pin and
\* draws n's circle there: the forces do not move a node being dragged.
C12_PinnedFollowsPointer ==
    [][\A n \in NodeIds :
          (Cardinality(DragsOn(n)) = 1 /\ Tick) =>
              /\ nodes'[n].fx = nodes[n].fx
              /\ nodes'[n].fy = nodes[n].fy
              /\ Num(nodes'[n].x) = nodes[n].fx
              /\ Num(nodes'[n].y) = nodes[n].fy
              /\ circle'[n].cx = nodes[n].fx
              /\ circle'[n].cy = nodes[n].fy]_vars

\* C13: destroy() leaves the active drags, their pins and alphaTarget as
\* they are, and their drag-move and drag-end stay deliverable; on a
\* destroyed view the step that ends a gesture still sets its node's pins to
\* null and, when it was the last active one, alphaTarget to 0; and neither
\* that step nor a drag-move changes whether the simulation runs.
C13_DragAcrossDestroy ==
    /\ [](\A i \in Identifiers :
             (destroyed /\ gestures[i] # Inactive) =>
                 /\ ENABLED DragEnd(i)
                 /\ \A e \in Points : ENABLED DragMove(i, e.x, e.y))
    /\ [][/\ (destroyed' /\ ~destroyed) =>
                 /\ gestures' = gestures
                 /\ nodes' = nodes
                 /\ alphaTarget' = alphaTarget
                 /\ ~running'
          /\ \A i \in Identifiers :
                 (destroyed /\ gestures[i] # Inactive /\ gestures'[i] = Inactive) =>
                     /\ nodes'[gestures[i]].fx = Null
                     /\ nodes'[gestures[i]].fy = Null
                     /\ ActiveCount = 1 => alphaTarget' = 0
                     /\ ActiveCount > 1 => alphaTarget' = alphaTarget
                     /\ running' = running
          /\ \A i \in Identifiers, e \in Points :
                 (destroyed /\ gestures' = gestures /\ nodes' # nodes /\ line' = line
                    /\ DragMove(i, e.x, e.y)) =>
                     /\ nodes'[gestures[i]].fx = Num(e.x)
                     /\ nodes'[gestures[i]].fy = Num(e.y)
                     /\ running' = running]_vars

\* C13 witness: the view has been destroyed with a drag in flight: the
\* timer is stopped, touch0 still holds n1 at a pin away from where n1 is,
\* and alphaTarget is still raised; the drag's move and end are yet to come.
C13_Witness ==
    /\ destroyed
    /\ ~running
    /\ gestures["touch0"] = "n1"
    /\ gestures["touch1"] = Inactive
    /\ alphaTarget = AlphaDragTarget
    /\ nodes["n1"].fx.k = "number"
    /\ nodes["n1"].fx # Num(nodes["n1"].x)

\* C14 (as claimed): the caller's data is never changed by the view: every
\* link keeps the string ids it was given as source and target, no node
\* has an x, y, fx or fy; and a second view built from the same data would
\* start as the first did: every node placed afresh, none pinned.
C14_InputIsolation ==
    /\ \A l \in LinkIds :
          /\ data.links[l].source = Str(DataLinks[l].source)
          /\ data.links[l].target = Str(DataLinks[l].target)
    /\ \A n \in NodeIds :
          /\ data.nodes[n].x = Undefined
          /\ data.nodes[n].y = Undefined
          /\ data.nodes[n].fx = Undefined
          /\ data.nodes[n].fy = Undefined
    /\ \A at \in [NodeIds -> Points] :
          Reconstructed(data, at) =
              [n \in NodeIds |-> [x |-> at[n].x, y |-> at[n].y,
                                  fx |-> Undefined, fy |-> Undefined]]

\* C15: a call sends one request when it is made and none after that,
\* whatever comes back; its promise stays pending until fetch settles; a
\* response whose body parses fulfils it with the parsed body, whatever the
\* status; a body that does not parse rejects it with the parser's error
\* and a rejected fetch with fetch's error.
C15_FailurePropagation ==
    /\ pc = "idle" => (fetched = <<>> /\ outcome.k = "pending")
    /\ pc = "awaiting" => (Len(fetched) = 1 /\ outcome.k = "pending")
    /\ pc = "done" =>
          /\ Len(fetched) = 1
          /\ \A st \in {200, 404, 500} :
                (response.k = "response" /\ response.status = st) =>
                    outcome = IF response.parses
                              THEN [k |-> "fulfilled", value |-> response.json]
                              ELSE [k |-> "rejected", value |-> "SyntaxError"]
          /\ response.k = "none" =>
                outcome = [k |-> "rejected", value |-> "TypeError"]

\* C15 witness: chart() got a 404 whose body parses, and returned that body
\* after its one request.
C15_Witness ==
    /\ pc = "done"
    /\ call.op = "chart"
    /\ response.k = "response"
    /\ response.status = 404
    /\ outcome = [k |-> "fulfilled", value |-> response.json]
    /\ Len(fetched) = 1

\* A step of one of the hover handlers (mouseover, mousemove, mouseout).
HoverStep ==
    \/ \E n \in NodeIds, e \in Clients : MouseOver(n, e)
    \/ \E n \in NodeIds, e \in Clients : MouseMove(n, e)
    \/ \E n \in NodeIds : MouseOut(n)

\* A step of the simulation's side: tick, drag-start, drag-move, drag-end,
\* destroy.
SimStep ==
    \/ Tick
    \/ \E i \in Identifiers, n \in NodeIds : DragStart(i, n)
    \/ \E i \in Identifiers, e \in Points : DragMove(i, e.x, e.y)
    \/ \E i \in Identifiers : DragEnd(i)
    \/ Destroy

\* C16: a hover handler changes no node's position or pin, nor alphaTarget,
\* nor whether the simulation runs; tick, drag-start, drag-move, drag-end
\* and destroy change nothing of the tooltip. So a visible tooltip is hidden
\* by a pointer-leave only and moved by a pointer-enter or -move only, also
\* while a drag is active; and on a destroyed view the hover handlers are
\* still delivered and an enter still shows the tooltip.
C16_ChannelIndependence ==
    /\ [](destroyed =>
            \A n \in NodeIds :
                /\ hover # n => \A e \in Clients : ENABLED MouseOver(n, e)
                /\ hover = n => /\ ENABLED MouseOut(n)
                                 /\ \A e \in Clients : ENABLED MouseMove(n, e))
    /\ [][/\ \/ UNCHANGED <<nodes, alphaTarget, running, alpha, gestures>>
             \/ ~HoverStep
          /\ \/ UNCHANGED tooltip
             \/ ~SimStep
          /\ (tooltip.visibility = "visible" /\ tooltip'.visibility # "visible") =>
                 \E n \in NodeIds : MouseOut(n)
          /\ (tooltip.visibility = "visible" /\
                 (tooltip'.top # tooltip.top \/ tooltip'.left # tooltip.left)) =>
                 \E n \in NodeIds, e \in Clients : MouseOver(n, e) \/ MouseMove(n, e)
          /\ (destroyed /\ hover' # hover /\ hover' # NoNode) =>
                 /\ tooltip'.visibility = "visible"
                 /\ tooltip'.opacity = 1
                 /\ Len(tooltip'.children) = 1]_vars

\* C16 witness: on a destroyed view with a drag in flight on n1 (pinned away
\* from where it is), the pointer has entered n2 and the tooltip is shown.
C16_Witness ==
    /\ destroyed
    /\ gestures["touch0"] = "n1"
    /\ nodes["n1"].fx.k = "number"
    /\ nodes["n1"].fx # Num(nodes["n1"].x)
    /\ hover = "n2"
    /\ entered = "n2"
    /\ tooltip.visibility = "visible"
    /\ tooltip.left = Client(MaxPointer).clientX - Rect.left + nodeSize

\* The values of the parameters of the request that are named name.
ValuesSent(name) ==
    LET ps == fetched[1].params
    IN  [i \in 1..Len(SelectSeq(ps, LAMBDA q : q.name = name)) |->
            SelectSeq(ps, LAMBDA q : q.name = name)[i].value]

\* list({tipos: [], page: 0, perPage: 0, anoLte: 0, anoGte: 0, campus: '',
\*       grandeArea: '', area: ''})
EmptyFilters ==
    Obj([campus |-> Str(""), grandeArea |-> Str(""), area |-> Str(""),
         tipos |-> Arr(<<>>), anoLte |-> Num(0), anoGte |-> Num(0),
         page |-> Num(0), perPage |-> Num(0)])

\* C17: list sends a tipos parameter with an empty value for tipos = [] and
\* none for tipos null or undefined; it sends no page, per_page, ano_lte or
\* ano_gte for a 0 and no campus, grande_area or area for an empty string.
\* With all of these at once the query string is 'tipos='.
C17_EmptyTipos ==
    (pc # "idle" /\ call.op = "list") =>
        LET f == call.filters.v
        IN  /\ f.tipos = Arr(<<>>) => ValuesSent("tipos") = <<"">>
            /\ f.tipos \in {Null, Undefined} => ValuesSent("tipos") = <<>>
            /\ f.page = Num(0) => ValuesSent("page") = <<>>
            /\ f.perPage = Num(0) => ValuesSent("per_page") = <<>>
            /\ f.anoLte = Num(0) => ValuesSent("ano_lte") = <<>>
            /\ f.anoGte = Num(0) => ValuesSent("ano_gte") = <<>>
            /\ f.campus = Str("") => ValuesSent("campus") = <<>>
            /\ f.grandeArea = Str("") => ValuesSent("grande_area") = <<>>
            /\ f.area = Str("") => ValuesSent("area") = <<>>
            /\ call.filters = EmptyFilters =>
                  QueryString(fetched[1].params) = "tipos="

\* C17 witness: that call has been made and has sent tipos alone.
C17_Witness ==
    /\ pc = "awaiting"
    /\ call = [op |-> "list", filters |-> EmptyFilters]
    /\ Len(fetched) = 1
    /\ Len(fetched[1].params) = 1
    /\ fetched[1].params[1].name = "tipos"
    /\ fetched[1].params[1].value = ""
====
